---- MODULE Spec2Model ----
(***************************************************************************)
(* Model of the OpenAPI stub generator (src/index.js): one asynchronous    *)
(* pipeline that validates its -f argument, scans the file for a version,  *)
(* scaffolds api-spec/<version>/ and a package manifest, relocates files   *)
(* and runs external npm commands.  Strings the program transforms (file   *)
(* names, lines, version tokens) are sequences of one-character strings.   *)
(***************************************************************************)
EXTENDS Integers, Sequences, FiniteSets, TLC

VARIABLES
    fs,             \* the file system: api-spec/ tree, ./package.json, openapitools.json
    argvF,          \* argv.f of the current run (NoFlag when -f is absent)
    input,          \* the file at path argv.f when the run starts
    pc,             \* position of the async function (await site or step)
    outcome,        \* "none" | "running" | "returned" | "threw" | "done"
    lineNo,         \* index of the next line handed to the eachLine callback
    versionNumber,  \* let versionNumber (line 47)
    pending,        \* makeDir promises of Promise.all not yet settled
    inflight,       \* asynchronous operations started and not yet completed
    execStarted,    \* commands handed to exec() by the current run
    registered,     \* keys passed to npmAddScript by the current run, in order
    fs0,            \* the file system when the current run started
    derived         \* version tokens derived by earlier runs

vars == <<fs, argvF, input, pc, outcome, lineNo, versionNumber, pending,
          inflight, execStarted, registered, fs0, derived>>

(***************************************************************************)
(* JavaScript string primitives on character sequences.                    *)
(***************************************************************************)
IsMatchAt(s, p, i) ==
    /\ i + Len(p) - 1 <= Len(s)
    /\ \A k \in 1..Len(p) : s[i + k - 1] = p[k]

\* String.prototype.indexOf, 1-based; 0 when absent
IndexOf(s, p) ==
    LET hits == {i \in 1..(Len(s) - Len(p) + 1) : IsMatchAt(s, p, i)}
    IN  IF hits = {} THEN 0 ELSE CHOOSE i \in hits : \A j \in hits : i <= j

\* String.prototype.includes
Includes(s, p) == IndexOf(s, p) # 0

\* String.prototype.replace with a string pattern: first occurrence only
Replace(s, p, r) ==
    LET i == IndexOf(s, p)
    IN  IF i = 0 THEN s
        ELSE SubSeq(s, 1, i - 1) \o r \o SubSeq(s, i + Len(p), Len(s))

\* String.prototype.replaceAll for a one-character pattern
RECURSIVE ReplaceAll(_, _, _)
ReplaceAll(s, c, r) ==
    IF s = <<>> THEN <<>>
    ELSE (IF Head(s) = c THEN r ELSE <<Head(s)>>) \o ReplaceAll(Tail(s), c, r)

IsSpace(c) == c \in {" ", "\t"}

\* String.prototype.trim
Trim(s) ==
    LET keep == {i \in 1..Len(s) : ~IsSpace(s[i])}
    IN  IF keep = {} THEN <<>>
        ELSE LET lo == CHOOSE i \in keep : \A j \in keep : i <= j
                 hi == CHOOSE i \in keep : \A j \in keep : i >= j
             IN  SubSeq(s, lo, hi)

\* String.prototype.substring(1)
Substring1(s) == SubSeq(s, 2, Len(s))

\* path.extname of a name without directory separators
Extname(name) ==
    LET dots == {i \in 1..Len(name) : name[i] = "."}
    IN  IF dots = {} THEN <<>>
        ELSE LET last == CHOOSE i \in dots : \A j \in dots : i >= j
             IN  IF last = 1 THEN <<>> ELSE SubSeq(name, last, Len(name))

(***************************************************************************)
(* Literals of the program.                                                *)
(***************************************************************************)
NoFlag == <<>>
Sentinel == <<"0">>
KeyToken == <<"v", "e", "r", "s", "i", "o", "n", ":">>
Needle == <<"v", "e", "r", "s", "i", "o", "n">>
openApiExtensions == { <<"y", "a", "m", "l">>, <<"y", "m", "l">>, <<"j", "s", "o", "n">> }
MakeDirTargets == {"open-api", "swagger-stub", "html-docs"}


RenameSourceDir == "ozpen-api"
CopyTargetDir == "open-api"

\* variant: only the first quote is removed (replace instead of replaceAll)
ExtractTokenFirstQuote(line) ==
    <<"v">> \o Trim(ReplaceAll(Replace(Replace(line, KeyToken, <<>>), <<"'">>, <<>>), ".", <<"-">>))

\* line 51: 'v' + line.replace('version:', '').replaceAll('\'', "").replaceAll('.', '-').trim()
ExtractToken(line) ==
    <<"v">> \o Trim(ReplaceAll(ReplaceAll(Replace(line, KeyToken, <<>>), "'", <<>>), ".", <<"-">>))

\* variant: the callback never returns false, so the reader keeps going
CallbackKeepReading(line, vn) ==
    IF Includes(line, Needle)
    THEN [versionNumber |-> ExtractToken(line), more |-> TRUE]
    ELSE [versionNumber |-> vn, more |-> TRUE]

\* lines 49-55: the eachLine callback; more = FALSE is `return false`
Callback(line, vn) ==
    IF Includes(line, Needle)
    THEN [versionNumber |-> ExtractToken(line), more |-> FALSE]
    ELSE [versionNumber |-> vn, more |-> TRUE]

\* variant: any extension is accepted
ExtensionOkAny(name) == Extname(name) # <<>>

\* lines 33-40: openApiExtensions.has(extension.substring(1))
ExtensionOk(name) == Substring1(Extname(name)) \in openApiExtensions

\* variant: the comparison is made with the empty string
NoVersionFoundEmpty(vn) == vn = <<>>

\* line 57: versionNumber === "0"
NoVersionFound(vn) == vn = Sentinel

\* line 62
FileNameWithVersion(name, vn) ==
    Replace(name, Extname(name), <<"-">> \o vn \o Extname(name))

\* line 63
FileNameWithVersionNoExtension(name, vn) ==
    Replace(FileNameWithVersion(name, vn), Extname(name), <<>>)

(***************************************************************************)
(* The package manifest and the scripts the run registers (lines 87-111).  *)
(* A script value is its template text and the interpolated file name.     *)
(***************************************************************************)
NoManifest == [exists |-> FALSE, scripts |-> <<>>]

\* what `npm init -y` writes when there is no package.json
InitManifest ==
    [exists |-> TRUE,
     scripts |-> << [key |-> "test",
                     value |-> [text |-> "echo \"Error: no test specified\" && exit 1", file |-> <<>>]] >>]

Script(k, t, f) == [key |-> k, value |-> [text |-> t, file |-> f]]

ScriptEntriesAll(fnv, fnvNoExt) == <<
    Script("make:swagger", "make-dir swagger-stub", <<>>),
    Script("generate:swagger", "npm run delete:swagger && npm run make:swagger && openapi-generator-cli generate -i open-api/${fileNameWithVersion} -g nodejs-express-server -o swagger-stub --additional-properties=serverPort=9999", fnv),
    Script("delete:swagger", "rimraf swagger-stub", <<>>),
    Script("make:docs", "make-dir html-docs", <<>>),
    Script("delete:docs", "rimraf html-docs", <<>>),
    Script("generate:docs", "npm run delete:docs && npm run make:docs && openapi-generator-cli generate -i open-api/${fileNameWithVersion} -g html2 -o html-docs", fnv),
    Script("make:markdown", "make-dir markdown-docs", <<>>),
    Script("generate:markdown", "npm run delete:markdown && npm run make:markdown && widdershins open-api/${fileNameWithVersion} -o markdown-docs/${fileNameWithVersionNoExtension}_dirty.md --omitHeader --expandBody --language_tabs 'javascript:JavaScript' && npm run markdown:prepare", fnv),
    Script("delete:markdown", "rimraf markdown-docs", <<>>),
    Script("markdown:tidy", "tidy-markdown < ./markdown-docs/${fileNameWithVersionNoExtension}_dirty.md > ./markdown-docs/${fileNameWithVersionNoExtension}.md", fnvNoExt),
    Script("markdown:remove-comments", "replace-in-files --string=\"<!-- backwards compatibility -->\" \"<!-- Generator: Widdershins v4.0.1 -->\" --replacement='' ./markdown-docs/${fileNameWithVersionNoExtension}.md", fnvNoExt),
    Script("markdown:remove-empty-links", "replace-in-files --string=\"[]()\" --replacement='' markdown-docs/${fileNameWithVersionNoExtension}.md", fnvNoExt),
    Script("markdown:remove-aside", "replace-in-files --string=\"</aside>\" --replacement='**' markdown-docs/${fileNameWithVersionNoExtension}.md", fnvNoExt),
    Script("markdown:replace-warnings", "replace-in-files --regex=\"<aside[^>]*>\" --replacement='**' markdown-docs/${fileNameWithVersionNoExtension}.md", fnvNoExt),
    Script("markdown:remove-dirty", "rimraf markdown-docs/${fileNameWithVersionNoExtension}_dirty.md", fnvNoExt),
    Script("markdown:prepare", "npm run markdown:tidy && npm run markdown:remove-comments && npm run markdown:remove-empty-links && npm run markdown:remove-aside && npm run markdown:replace-warnings && npm run markdown:remove-dirty", <<>>),
    Script("generate", "npm run generate:swagger && npm run generate:docs && npm run generate:markdown", <<>>),
    Script("start:swagger", "cd swagger-stub && npm start", <<>>),
    Script("start:prism", "prism mock open-api/${fileNameWithVersion}", fnv),
    Script("start:browser", "wait-on http://localhost:9999/api-docs && start http://localhost:9999/api-docs\"", <<>>),
    Script("start", "concurrently -n swagger,prism,browser \"npm run start:swagger\" \"npm run start:prism\" \"npm run start:browser\"", <<>>) >>

\* variant: the registration of "start" is missing
ScriptEntriesNoStart(fnv, fnvNoExt) ==
    SubSeq(ScriptEntriesAll(fnv, fnvNoExt), 1, Len(ScriptEntriesAll(fnv, fnvNoExt)) - 1)

\* lines 87-111
ScriptEntries(fnv, fnvNoExt) == ScriptEntriesAll(fnv, fnvNoExt)

HasKey(scripts, k) == \E i \in 1..Len(scripts) : scripts[i].key = k

\* npmAddScript({key, value}): appends to package.json, throws when there is
\* no package.json or the key is already taken
NpmAddScript(m, entry) ==
    IF ~m.exists \/ HasKey(m.scripts, entry.key)
    THEN [ok |-> FALSE, pkg |-> m]
    ELSE [ok |-> TRUE, pkg |-> [m EXCEPT !.scripts = Append(@, entry)]]

\* lines 87-111 in order; the first throw ends the sequence
RECURSIVE AddAll(_, _, _)
AddAll(m, entries, reg) ==
    IF entries = <<>> THEN [ok |-> TRUE, pkg |-> m, registered |-> reg]
    ELSE LET r == NpmAddScript(m, Head(entries))
             reg1 == Append(reg, Head(entries).key)
         IN  IF r.ok THEN AddAll(r.pkg, Tail(entries), reg1)
             ELSE [ok |-> FALSE, pkg |-> r.pkg, registered |-> reg1]

(***************************************************************************)
(* The file system.  fs.versions maps each existing api-spec/<version> to  *)
(* its sub-directories, the files in them and its package.json.            *)
(***************************************************************************)
EmptyVersionDir == [dirs |-> {}, files |-> {}, pkg |-> NoManifest]
EmptyFs == [versions |-> <<>>, pkg |-> NoManifest, tools |-> FALSE, apiTools |-> FALSE]

\* whether the directory api-spec/<vn> exists
VersionExists(f, vn) == vn \in DOMAIN f.versions

\* variant: the check looks at a path that never exists
TargetExistsNever(f, vn) == FALSE

\* line 72: fs.existsSync(`./api-spec/${versionNumber}`)
TargetExists(f, vn) == VersionExists(f, vn)

VersionDirOf(f, vn) == IF VersionExists(f, vn) THEN f.versions[vn] ELSE EmptyVersionDir

WithVersionDir(f, vn, d) ==
    [f EXCEPT !.versions = [w \in DOMAIN f.versions \cup {vn} |->
                               IF w = vn THEN d ELSE f.versions[w]]]

\* makeDir(`api-spec/${versionNumber}/${dir}`): mkdir -p
MakeDir(f, vn, dir) ==
    WithVersionDir(f, vn, [VersionDirOf(f, vn) EXCEPT !.dirs = @ \cup {dir}])

FileAt(d, dir, name) == {x \in d.files : x.dir = dir /\ x.name = name}

\* line 114: fsPromises.copyFile(fileName, `api-spec/${v}/open-api/${fileName}`)
CopyFile(f, vn, name, content) ==
    LET d == VersionDirOf(f, vn)
    IN  IF CopyTargetDir \notin d.dirs THEN [ok |-> FALSE, fs |-> f]
        ELSE [ok |-> TRUE,
              fs |-> WithVersionDir(f, vn, [d EXCEPT !.files =
                        (@ \ FileAt(d, CopyTargetDir, name))
                        \cup {[dir |-> CopyTargetDir, name |-> name, content |-> content]}])]

\* line 115: fsPromises.rename(`api-spec/${v}/ozpen-api/${fileName}`,
\*                             `api-spec/${v}/open-api/${fileNameWithVersion}`)
Rename(f, vn, name, newName) ==
    LET d == VersionDirOf(f, vn)
        src == FileAt(d, RenameSourceDir, name)
    IN  IF src = {} \/ CopyTargetDir \notin d.dirs THEN [ok |-> FALSE, fs |-> f]
        ELSE [ok |-> TRUE,
              fs |-> WithVersionDir(f, vn, [d EXCEPT !.files =
                        ((@ \ src) \ FileAt(d, CopyTargetDir, newName))
                        \cup {[dir |-> CopyTargetDir, name |-> newName,
                               content |-> x.content] : x \in src}])]

\* line 116: moveFile('package.json', `api-spec/${v}/package.json`)
MoveManifest(f, vn) ==
    IF ~f.pkg.exists THEN [ok |-> FALSE, fs |-> f]
    ELSE [ok |-> TRUE,
          fs |-> [WithVersionDir(f, vn, [VersionDirOf(f, vn) EXCEPT !.pkg = f.pkg])
                    EXCEPT !.pkg = NoManifest]]

\* line 131: moveFile('openapitools.json', 'api-spec/openapitools.json')
MoveTools(f) ==
    IF ~f.tools THEN [ok |-> FALSE, fs |-> f]
    ELSE [ok |-> TRUE, fs |-> [f EXCEPT !.tools = FALSE, !.apiTools = TRUE]]


\* line 84: `npm init -y` creates ./package.json, keeping an existing one
NpmInit(f) == IF f.pkg.exists THEN f ELSE [f EXCEPT !.pkg = InitManifest]

(***************************************************************************)
(* Positions of the async function and the stages they belong to.          *)
(***************************************************************************)
ExecSites == {"npmInit", "install", "generateSwagger", "generateDocs", "generateMarkdown"}
FsSites == {"copyFile", "rename", "moveManifest", "cleanup"}

\* the statement reached when the operation awaited at p has completed
NextPc(p) ==
    CASE p = "validate" -> "readLines"
      [] p = "readLines" -> "scanned"
      [] p = "scanned" -> "checkNotExists"
      [] p = "checkNotExists" -> "makeDirs"
      [] p = "makeDirs" -> "npmInit"
      [] p = "npmInit" -> "addScripts"
      [] p = "addScripts" -> "copyFile"
      [] p = "copyFile" -> "rename"
      [] p = "rename" -> "moveManifest"
      [] p = "moveManifest" -> "install"
      [] p = "install" -> "generateSwagger"
      [] p = "generateSwagger" -> "generateDocs"
      [] p = "generateDocs" -> "generateMarkdown"
      [] p = "generateMarkdown" -> "cleanup"
      [] p = "cleanup" -> "done"
      [] OTHER -> "done"

\* the effect of a command that exits with status 0
ExecEffect(p, f) ==
    CASE p = "npmInit" -> NpmInit(f)
      [] p = "generateSwagger" -> [f EXCEPT !.tools = TRUE]
      [] OTHER -> f

\* the awaited file operation at p
FsEffect(p, f, vn, name, content) ==
    CASE p = "copyFile" -> CopyFile(f, vn, name, content)
      [] p = "rename" -> Rename(f, vn, name, FileNameWithVersion(name, vn))
      [] p = "moveManifest" -> MoveManifest(f, vn)
      [] OTHER -> MoveTools(f)

\* variant: Promise.race, resolved when the first makeDir promise settles
JoinReadyAny(p) == p # MakeDirTargets

\* Promise.all (line 79): resolved when no makeDir promise is pending
JoinReady(p) == p = {}

(***************************************************************************)
(* Inputs: the -f arguments and the files they may name.                   *)
(***************************************************************************)
SpecYaml == <<"s", "p", "e", "c", ".", "y", "a", "m", "l">>
ApiJson == <<"a", "p", "i", ".", "j", "s", "o", "n">>
NotesTxt == <<"n", "o", "t", "e", "s", ".", "t", "x", "t">>
Readme == <<"R", "E", "A", "D", "M", "E">>
Names == {SpecYaml, ApiJson, NotesTxt, Readme}

LineTitle == <<"t", "i", "t", "l", "e", ":", " ", "a", "p", "i">>
LineVersion200 == <<"v", "e", "r", "s", "i", "o", "n", ":", " ", "2", ".", "0", ".", "0">>
LineVersion123 == <<"v", "e", "r", "s", "i", "o", "n", ":", " ", "'", "1", ".", "2", ".", "3", "'">>

Missing == [exists |-> FALSE, lines |-> <<>>]
File(ls) == [exists |-> TRUE, lines |-> ls]

SpecContents == { <<>>, <<LineTitle>>, <<LineTitle, LineVersion200>>,
                  <<LineVersion123, LineVersion200>> }
Inputs == {Missing} \cup {File(c) : c \in SpecContents}

(***************************************************************************)
(* The state machine.                                                      *)
(***************************************************************************)
Init ==
    /\ fs = EmptyFs
    /\ argvF = NoFlag
    /\ input = Missing
    /\ pc = "validate"
    /\ outcome = "none"
    /\ lineNo = 1
    /\ versionNumber = Sentinel
    /\ pending = {}
    /\ inflight = {}
    /\ execStarted = {}
    /\ registered = <<>>
    /\ fs0 = EmptyFs
    /\ derived = {}

\* the user starts the tool (line 14) once the previous process has ended
Launch(f, inp) ==
    /\ outcome # "running"
    /\ f = NoFlag => inp = Missing
    /\ argvF' = f
    /\ input' = inp
    /\ pc' = "validate"
    /\ outcome' = "running"
    /\ lineNo' = 1
    /\ versionNumber' = Sentinel
    /\ pending' = {}
    /\ inflight' = {}
    /\ execStarted' = {}
    /\ registered' = <<>>
    /\ fs0' = fs
    /\ derived' = derived \cup (IF versionNumber # Sentinel THEN {versionNumber} ELSE {})
    /\ UNCHANGED fs

\* lines 18-49: the three input checks, then the line reader is started
Validate ==
    /\ outcome = "running" /\ pc = "validate"
    /\ IF argvF = NoFlag \/ ~input.exists \/ ~ExtensionOk(argvF)
       THEN /\ outcome' = "returned"
            /\ UNCHANGED <<pc, inflight>>
       ELSE /\ pc' = NextPc(pc)
            /\ inflight' = {"readLines"}
            /\ UNCHANGED outcome
    /\ versionNumber' = Sentinel
    /\ lineNo' = 1
    /\ UNCHANGED <<fs, argvF, input, pending, execStarted, registered, fs0, derived>>

\* lines 49-55: the callback runs on the next line; `return false` ends the read
EachLine ==
    /\ outcome = "running" /\ pc = "readLines"
    /\ lineNo <= Len(input.lines)
    /\ LET r == Callback(input.lines[lineNo], versionNumber)
       IN  /\ versionNumber' = r.versionNumber
           /\ IF r.more
              THEN lineNo' = lineNo + 1 /\ UNCHANGED <<pc, inflight>>
              ELSE pc' = NextPc(pc) /\ inflight' = {} /\ UNCHANGED lineNo
    /\ UNCHANGED <<fs, argvF, input, outcome, pending, execStarted, registered, fs0, derived>>

\* the reader reaches the end of the file without a match
EndOfFile ==
    /\ outcome = "running" /\ pc = "readLines"
    /\ lineNo > Len(input.lines)
    /\ pc' = NextPc(pc)
    /\ inflight' = {}
    /\ UNCHANGED <<fs, argvF, input, outcome, lineNo, versionNumber, pending,
                   execStarted, registered, fs0, derived>>

\* lines 57-63: abort on the sentinel
CheckVersion ==
    /\ outcome = "running" /\ pc = "scanned"
    /\ IF NoVersionFound(versionNumber)
       THEN outcome' = "returned" /\ UNCHANGED pc
       ELSE pc' = NextPc(pc) /\ UNCHANGED outcome
    /\ UNCHANGED <<fs, argvF, input, lineNo, versionNumber, pending, inflight,
                   execStarted, registered, fs0, derived>>

\* lines 65-82: abort when api-spec/<version> exists, else issue the three makeDir calls
CheckNotExists ==
    /\ outcome = "running" /\ pc = "checkNotExists"
    /\ IF ~input.exists \/ TargetExists(fs, versionNumber)
       THEN /\ outcome' = "returned"
            /\ UNCHANGED <<pc, pending, inflight>>
       ELSE /\ pc' = NextPc(pc)
            /\ pending' = MakeDirTargets
            /\ inflight' = MakeDirTargets
            /\ UNCHANGED outcome
    /\ UNCHANGED <<fs, argvF, input, lineNo, versionNumber, execStarted, registered,
                   fs0, derived>>

\* one makeDir promise settles
MakeDirDone(d) ==
    /\ d \in pending
    /\ fs' = MakeDir(fs, versionNumber, d)
    /\ pending' = pending \ {d}
    /\ inflight' = inflight \ {d}
    /\ UNCHANGED <<argvF, input, pc, outcome, lineNo, versionNumber, execStarted,
                   registered, fs0, derived>>

\* lines 79-84: Promise.all resolves and `npm init -y` is started
Join ==
    /\ outcome = "running" /\ pc = "makeDirs"
    /\ JoinReady(pending)
    /\ pc' = NextPc(pc)
    /\ inflight' = inflight \cup {NextPc(pc)}
    /\ execStarted' = execStarted \cup {NextPc(pc)}
    /\ UNCHANGED <<fs, argvF, input, outcome, lineNo, versionNumber, pending,
                   registered, fs0, derived>>

\* variant: the next operation is started without awaiting the current one
AdvanceNoAwait ==
    LET n == NextPc(pc)
    IN  /\ pc' = n
        /\ outcome' = IF n = "done" THEN "done" ELSE "running"
        /\ inflight' = inflight \cup (IF n \in ExecSites \cup FsSites THEN {n} ELSE {})
        /\ execStarted' = execStarted \cup (IF n \in ExecSites THEN {n} ELSE {})

\* the position after the operation at pc completed, with what it starts
Advance ==
    LET n == NextPc(pc)
    IN  /\ pc' = n
        /\ outcome' = IF n = "done" THEN "done" ELSE "running"
        /\ inflight' = (inflight \ {pc}) \cup (IF n \in ExecSites \cup FsSites THEN {n} ELSE {})
        /\ execStarted' = execStarted \cup (IF n \in ExecSites THEN {n} ELSE {})

\* the awaited operation rejects: the async function ends with an unhandled rejection
Reject ==
    /\ outcome' = "threw"
    /\ inflight' = inflight \ {pc}
    /\ UNCHANGED <<pc, execStarted>>

\* lines 84, 119, 122, 125, 128: an awaited exec() settles
ExecDone ==
    /\ outcome = "running" /\ pc \in ExecSites
    /\ \E ok \in BOOLEAN :
          IF ok THEN fs' = ExecEffect(pc, fs) /\ Advance
                ELSE UNCHANGED fs /\ Reject
    /\ UNCHANGED <<argvF, input, lineNo, versionNumber, pending, registered, fs0, derived>>

\* lines 86-114: the npmAddScript calls, then copyFile is started
AddScripts ==
    /\ outcome = "running" /\ pc = "addScripts"
    /\ LET r == AddAll(fs.pkg,
                       ScriptEntries(FileNameWithVersion(argvF, versionNumber),
                                     FileNameWithVersionNoExtension(argvF, versionNumber)),
                       <<>>)
       IN  /\ fs' = [fs EXCEPT !.pkg = r.pkg]
           /\ registered' = r.registered
           /\ IF r.ok THEN Advance ELSE Reject
    /\ UNCHANGED <<argvF, input, lineNo, versionNumber, pending, fs0, derived>>

\* lines 114, 115, 116, 131: an awaited file operation settles
FsDone ==
    /\ outcome = "running" /\ pc \in FsSites
    /\ LET r == FsEffect(pc, fs, versionNumber, argvF, input.lines)
       IN  /\ fs' = r.fs
           /\ IF r.ok THEN Advance ELSE Reject
    /\ UNCHANGED <<argvF, input, lineNo, versionNumber, pending, registered, fs0, derived>>

Next ==
    \/ \E f \in Names \cup {NoFlag}, inp \in Inputs : Launch(f, inp)
    \/ Validate
    \/ EachLine
    \/ EndOfFile
    \/ CheckVersion
    \/ CheckNotExists
    \/ \E d \in MakeDirTargets : MakeDirDone(d)
    \/ Join
    \/ ExecDone
    \/ AddScripts
    \/ FsDone

Spec == Init /\ [][Next]_vars


(***************************************************************************)
(* The version scan on its own (lines 47-60), over a larger set of files.  *)
(***************************************************************************)
MaxLines == 2

Indents == { <<>>, <<" ", " ">> }
Components == { <<"1">>, <<"2", "0">> }

\* the line `version: '<a>.<b>.<c>'` behind an indent
SemverLine(ind, a, b, c) ==
    ind \o KeyToken \o <<" ", "'">> \o a \o <<".">> \o b \o <<".">> \o c \o <<"'">>

LineApiVersion == <<"a", "p", "i", "v", "e", "r", "s", "i", "o", "n", ":", " ", "3">>
LineVersionZero == <<"v", "e", "r", "s", "i", "o", "n", ":", " ", "0">>
LineJsonVersion == <<"\"", "v", "e", "r", "s", "i", "o", "n", "\"", ":", " ", "\"", "1", ".", "0", "\"", ",">>

ScanLines ==
    {SemverLine(ind, a, b, c) : ind \in Indents, a \in Components, b \in Components, c \in Components}
    \cup {LineTitle, LineVersion200, LineApiVersion, LineVersionZero, LineJsonVersion}

RECURSIVE SeqsUpTo(_, _)
SeqsUpTo(S, n) ==
    IF n = 0 THEN { <<>> }
    ELSE LET shorter == SeqsUpTo(S, n - 1)
         IN  shorter \cup {Append(q, x) : q \in shorter, x \in S}

ScanContents == SeqsUpTo(ScanLines, MaxLines)

InitScan ==
    /\ fs = EmptyFs
    /\ argvF = SpecYaml
    /\ input \in {File(c) : c \in ScanContents}
    /\ pc = "readLines"
    /\ outcome = "running"
    /\ lineNo = 1
    /\ versionNumber = Sentinel
    /\ pending = {}
    /\ inflight = {"readLines"}
    /\ execStarted = {}
    /\ registered = <<>>
    /\ fs0 = EmptyFs
    /\ derived = {}

NextScan ==
    \/ EachLine
    \/ EndOfFile
    \/ CheckVersion

SpecScan == InitScan /\ [][NextScan]_vars



(***************************************************************************)
(* Vocabulary of the properties, stated without the program's operators.   *)
(***************************************************************************)
EndsWith(s, suffix) ==
    /\ Len(s) >= Len(suffix)
    /\ SubSeq(s, Len(s) - Len(suffix) + 1, Len(s)) = suffix

HasValidExtension(name) ==
    \/ EndsWith(name, <<".", "y", "a", "m", "l">>)
    \/ EndsWith(name, <<".", "y", "m", "l">>)
    \/ EndsWith(name, <<".", "j", "s", "o", "n">>)

InputInvalid == argvF = NoFlag \/ ~input.exists \/ ~HasValidExtension(argvF)

ContainsVersion(line) ==
    \E i \in 1..Len(line) : i + 6 <= Len(line) /\ SubSeq(line, i, i + 6) = Needle

MatchingLines == {i \in 1..Len(input.lines) : ContainsVersion(input.lines[i])}
FirstMatch == CHOOSE i \in MatchingLines : \A j \in MatchingLines : i <= j

Started == outcome # "none"
Ended == outcome \in {"returned", "threw", "done"}
BeforeChecks == {"validate", "readLines", "scanned"}
ScanOver == pc \in {"scanned", "checkNotExists"}
NoSideEffects == fs = fs0 /\ execStarted = {} /\ registered = <<>> /\ pending = {}

Version200 == <<"v", "2", "-", "0", "-", "0">>
SpecYaml200 == <<"s", "p", "e", "c", "-", "v", "2", "-", "0", "-", "0", ".", "y", "a", "m", "l">>

\* <original-stem>-<version><ext>, the extension being the text from the last dot
StemVersionExt(name, vn) ==
    LET dots == {i \in 1..Len(name) : name[i] = "."}
        last == CHOOSE i \in dots : \A j \in dots : i >= j
    IN  SubSeq(name, 1, last - 1) \o <<"-">> \o vn \o SubSeq(name, last, Len(name))

OpenApiFiles == {x \in VersionDirOf(fs, versionNumber).files : x.dir = "open-api"}

\* the run is over, no check aborted it and no external command failed
EndedWithoutAbortOrCommandFailure ==
    /\ Ended
    /\ outcome # "returned"
    /\ ~(outcome = "threw" /\ pc \in ExecSites)

(***************************************************************************)
(* C1: when input validation fails (no -f flag, no file at the path, or an *)
(* extension other than yaml, yml, json) the run stops at validation and   *)
(* has no side effect: the file system is as it was when the run started   *)
(* (no directory, no manifest) and no external command was started.        *)
(***************************************************************************)
C1_InvalidInputNoSideEffects ==
    (Started /\ InputInvalid) =>
        /\ pc = "validate"
        /\ outcome \in {"running", "returned"}
        /\ NoSideEffects

C1_Witness ==
    /\ outcome = "returned" /\ pc = "validate"
    /\ argvF = NotesTxt /\ input.exists
    /\ fs # EmptyFs

(***************************************************************************)
(* C2: for a valid input none of whose lines contains "version", the       *)
(* version stays at the sentinel "0" and the run stops before any          *)
(* directory is created, the manifest touched or a command started.        *)
(***************************************************************************)
C2_NoVersionAborts ==
    (Started /\ ~InputInvalid /\ MatchingLines = {}) =>
        /\ versionNumber = Sentinel
        /\ pc \in BeforeChecks
        /\ outcome \in {"running", "returned"}
        /\ NoSideEffects

C2_Witness ==
    /\ outcome = "returned" /\ pc = "scanned"
    /\ input.lines = <<LineTitle>>
    /\ ~InputInvalid

(***************************************************************************)
(* C3: when api-spec/<version> exists as the run reaches the existence     *)
(* check, the run returns there with the file system untouched and no      *)
(* command started; a version derived by an earlier run always exists, so  *)
(* a re-run with the same version aborts.                                  *)
(***************************************************************************)
C3_ExistingVersionUntouched ==
    (Started /\ pc \notin BeforeChecks) =>
        /\ (versionNumber \in derived => versionNumber \in DOMAIN fs0.versions)
        /\ (versionNumber \in DOMAIN fs0.versions =>
                /\ pc = "checkNotExists"
                /\ outcome \in {"running", "returned"}
                /\ NoSideEffects)

C3_Witness ==
    /\ outcome = "returned" /\ pc = "checkNotExists"
    /\ versionNumber \in derived
    /\ OpenApiFiles # {}
    /\ fs = fs0

(***************************************************************************)
(* C4: for spec.yaml whose first "version" line is `version: 2.0.0`, with  *)
(* api-spec/v2-0-0 absent and every external command succeeding, the run   *)
(* ends in Done with the three directories, open-api/spec-v2-0-0.yaml and  *)
(* the manifest at api-spec/v2-0-0/package.json.                           *)
(***************************************************************************)
C4_EndToEnd ==
    ( /\ Ended
      /\ argvF = SpecYaml /\ input.exists
      /\ MatchingLines # {} /\ input.lines[FirstMatch] = LineVersion200
      /\ Version200 \notin DOMAIN fs0.versions
      /\ ~(outcome = "threw" /\ pc \in ExecSites) ) =>
        /\ outcome = "done"
        /\ MakeDirTargets \subseteq VersionDirOf(fs, Version200).dirs
        /\ \E x \in VersionDirOf(fs, Version200).files :
              x.dir = "open-api" /\ x.name = SpecYaml200
        /\ VersionDirOf(fs, Version200).pkg.exists
        /\ ~fs.pkg.exists

C6_SemverToken ==
    (ScanOver /\ MatchingLines # {}) =>
        \A ind \in Indents, a \in Components, b \in Components, c \in Components :
            input.lines[FirstMatch] = SemverLine(ind, a, b, c) =>
                versionNumber = <<"v">> \o a \o <<"-">> \o b \o <<"-">> \o c

C6_Witness ==
    /\ pc = "checkNotExists"
    /\ MatchingLines # {} /\ FirstMatch = 2
    /\ input.lines[2] = SemverLine(<<" ", " ">>, <<"1">>, <<"2", "0">>, <<"1">>)
    /\ versionNumber = <<"v", "1", "-", "2", "0", "-", "1">>

(***************************************************************************)
(* C7: once all script registrations have run, the manifest holds every    *)
(* documented key (make:, generate:, delete: for swagger, docs, markdown,  *)
(* plus generate, start, start:swagger, start:prism, start:browser) with a *)
(* non-empty command, and the run registered no key twice.                 *)
(***************************************************************************)
DocumentedKeys ==
    {"make:swagger", "generate:swagger", "delete:swagger",
     "make:docs", "generate:docs", "delete:docs",
     "make:markdown", "generate:markdown", "delete:markdown",
     "generate", "start", "start:swagger", "start:prism", "start:browser"}

Manifest == IF fs.pkg.exists THEN fs.pkg ELSE VersionDirOf(fs, versionNumber).pkg

RegistrationsDone ==
    /\ Started
    /\ pc \notin BeforeChecks \cup {"checkNotExists", "makeDirs", "npmInit", "addScripts"}

C7_ManifestComplete ==
    RegistrationsDone =>
        /\ Manifest.exists
        /\ \A k \in DocumentedKeys :
              \E i \in 1..Len(Manifest.scripts) :
                  Manifest.scripts[i].key = k /\ Manifest.scripts[i].value.text # ""
        /\ \A i, j \in 1..Len(registered) : registered[i] = registered[j] => i = j
        /\ \A i, j \in 1..Len(Manifest.scripts) :
              Manifest.scripts[i].key = Manifest.scripts[j].key => i = j

C7_Witness ==
    /\ pc = "copyFile" /\ outcome = "running"
    /\ Len(registered) > Cardinality(DocumentedKeys)
    /\ "start" \in {registered[i] : i \in 1..Len(registered)}

(***************************************************************************)
(* C8: the stages follow the order Validate, ExtractVersion,               *)
(* CheckNotExists, Scaffold, Relocate, Install, GenerateStub,              *)
(* GenerateDocs, GenerateMarkdown, Cleanup, Done, one stage at a time;     *)
(* after directory creation at most one operation is in progress and it is *)
(* the one awaited; a run that failed or returned starts nothing more.     *)
(***************************************************************************)
StageOf(p) ==
    CASE p = "validate" -> 1
      [] p \in {"readLines", "scanned"} -> 2
      [] p = "checkNotExists" -> 3
      [] p \in {"makeDirs", "npmInit", "addScripts"} -> 4
      [] p \in {"copyFile", "rename", "moveManifest"} -> 5
      [] p = "install" -> 6
      [] p = "generateSwagger" -> 7
      [] p = "generateDocs" -> 8
      [] p = "generateMarkdown" -> 9
      [] p = "cleanup" -> 10
      [] OTHER -> 11

IsLaunch == outcome # "running" /\ outcome' = "running"

C8_StepInOrder ==
    ~IsLaunch =>
        /\ StageOf(pc') \in {StageOf(pc), StageOf(pc) + 1}
        /\ outcome' \in {"returned", "threw"} => pc' = pc /\ execStarted' = execStarted
        /\ Ended => UNCHANGED <<pc, outcome, fs, inflight, execStarted, registered>>
        /\ (execStarted' # execStarted \/ (pc' # pc /\ pc' \in FsSites)) =>
              inflight' = {pc'}

C8_OneInProgress ==
    /\ (Started /\ StageOf(pc) >= 4 /\ pc # "makeDirs") =>
          /\ Cardinality(inflight) <= 1
          /\ inflight \subseteq {pc}
    /\ Ended => inflight = {}

C8_StagesInOrder == [][C8_StepInOrder]_vars /\ []C8_OneInProgress

C8_Witness ==
    /\ outcome = "threw" /\ pc = "rename"
    /\ execStarted = {"npmInit"}
    /\ inflight = {}

(***************************************************************************)
(* C9: the three makeDir calls are joined: whatever the order in which     *)
(* they complete, `npm init` and everything after it start only when       *)
(* open-api, swagger-stub and html-docs all exist, and the tree at the     *)
(* join is the starting tree plus exactly these three directories.         *)
(***************************************************************************)
C9_JoinBeforeManifest ==
    /\ (Started /\ (StageOf(pc) >= 5 \/ pc \in {"npmInit", "addScripts"} \/ execStarted # {})) =>
          /\ pending = {}
          /\ MakeDirTargets \subseteq VersionDirOf(fs, versionNumber).dirs
    /\ (Started /\ pc = "npmInit" /\ outcome = "running") =>
          fs = WithVersionDir(fs0, versionNumber,
                              [EmptyVersionDir EXCEPT !.dirs = MakeDirTargets])

C9_Witness ==
    /\ pc = "npmInit" /\ outcome = "running"
    /\ execStarted = {"npmInit"}
    /\ VersionDirOf(fs, versionNumber).dirs = MakeDirTargets
    /\ fs0 # EmptyFs

(***************************************************************************)
(* C10: the token comes from the first line containing "version" alone:    *)
(* the scan stops there, later lines (matching or not) do not change it,   *)
(* and whatever that line is, the token differs from the sentinel "0", so  *)
(* the run does not abort for lack of a version.                           *)
(***************************************************************************)
C10_FirstMatchDecides ==
    /\ (pc = "readLines" /\ MatchingLines # {}) => lineNo <= FirstMatch
    /\ (ScanOver /\ MatchingLines # {}) =>
          /\ versionNumber = ExtractToken(input.lines[FirstMatch])
          /\ lineNo = FirstMatch
          /\ versionNumber # Sentinel
          /\ outcome # "returned"

C10_Witness ==
    /\ pc = "checkNotExists"
    /\ input.lines = <<LineApiVersion, LineVersion200>>
    /\ versionNumber = <<"v", "a", "p", "i", " ", "3">>

====
